---- MODULE Spec2Model ----
(***************************************************************************)
(* A model of the Virtual_PMT workflow: the phase policy (config.py), the  *)
(* planner (planner.py), the judge and its structural validator            *)
(* (judge.py), the enhancer (enhancer.py), the executor (executor.py) and  *)
(* the graph that wires them (Graph.py).                                   *)
(*                                                                         *)
(* Python values are modelled as follows.                                  *)
(*   - A str that the code only compares for equality (an agent role, a    *)
(*     phase) is a TLA+ string.                                            *)
(*   - A str that the code measures, strips, splits or case-folds (a task  *)
(*     description, an action name) is a sequence of one-character         *)
(*     strings.                                                            *)
(*   - A JSON value is a record [kind, d]: kind "dict" with d the function *)
(*     from the keys present to their values, or kind "int" for a value    *)
(*     that is not an object.                                              *)
(*   - A text produced by the completion engine is a sequence of tokens:   *)
(*     "[", "]", ",", a prose token "x", and tokens that each stand for    *)
(*     one JSON literal.                                                   *)
(*   - A raised exception is the field raised of an operator's result and  *)
(*     the variable error of the run.                                      *)
(***************************************************************************)
EXTENDS Integers, Sequences, FiniteSets, TLC

VARIABLES
    pc,                 \* the node the workflow engine invokes next
    error,              \* the exception that aborted the run, or "none"
    input,              \* AppState.input
    phase,              \* AppState.phase
    plan,               \* AppState.plan
    reviewed_plan,      \* AppState.reviewed_plan
    enhanced_plan,      \* AppState.enhanced_plan
    step,               \* AppState.step
    results,            \* AppState.results
    done,               \* AppState.done
    judge_feedback,     \* AppState.judge_feedback
    validation_errors,  \* AppState.validation_errors
    raw_output,         \* the completion engine's answer to the planner
    llm_calls,          \* the nodes that invoked the completion engine, in order
    semantic_memory,    \* the writes made to the semantic memory store
    args,               \* the arguments of a function called on its own
    ret                 \* its result

vars == <<pc, error, input, phase, plan, reviewed_plan, enhanced_plan, step,
          results, done, judge_feedback, validation_errors, raw_output,
          llm_calls, semantic_memory, args, ret>>

-----------------------------------------------------------------------------
(* Bounds of the model.                                                    *)

MaxPlanLen == 3
MaxSuggestions == 2
MaxRawLen == 5
MaxRunItems == 2
MaxRunSuggestions == 2

-----------------------------------------------------------------------------
(* Python str operations on sequences of characters.                       *)

Rep(c, n) == [i \in 1..n |-> c]

WhiteSpace == {" "}

LowerChar(c) ==
    CASE c = "A" -> "a"
      [] c = "B" -> "b"
      [] c = "C" -> "c"
      [] c = "D" -> "d"
      [] c = "M" -> "m"
      [] c = "R" -> "r"
      [] OTHER -> c

Lower(s) == [i \in 1..Len(s) |-> LowerChar(s[i])]

Take(s, n) == SubSeq(s, 1, IF Len(s) < n THEN Len(s) ELSE n)

RECURSIVE LStrip(_)
LStrip(s) == IF s # <<>> /\ Head(s) \in WhiteSpace THEN LStrip(Tail(s)) ELSE s

RECURSIVE RStrip(_)
RStrip(s) ==
    IF s # <<>> /\ s[Len(s)] \in WhiteSpace
    THEN RStrip(SubSeq(s, 1, Len(s) - 1))
    ELSE s

Strip(s) == RStrip(LStrip(s))

\* set(s.split()): the maximal runs of non-whitespace characters, as a set.
\* A run starts at a character that follows whitespace or nothing and ends
\* at the first character from there that whitespace or nothing follows.
WordSet(s) ==
    LET starts == {i \in 1..Len(s) :
                      s[i] \notin WhiteSpace /\ (i = 1 \/ s[i - 1] \in WhiteSpace)}
        EndFrom(i) == CHOOSE j \in i..Len(s) :
                          /\ j = Len(s) \/ s[j + 1] \in WhiteSpace
                          /\ \A k \in i..(j - 1) : s[k + 1] \notin WhiteSpace
    IN  {SubSeq(s, i, EndFrom(i)) : i \in starts}

Range(s) == {s[i] : i \in DOMAIN s}

-----------------------------------------------------------------------------
(* Python dict operations on JSON values.                                  *)

EmptyDict == [k \in {} |-> 0]

JDict(f) == [kind |-> "dict", d |-> f]

JInt == [kind |-> "int", d |-> [value |-> 1]]

IsDict(x) == x.kind = "dict"

Has(x, k) == k \in DOMAIN x.d

Get(x, k, default) == IF k \in DOMAIN x.d THEN x.d[k] ELSE default

Put(x, k, v) ==
    [x EXCEPT !.d = [y \in (DOMAIN x.d) \cup {k} |-> IF y = k THEN v ELSE x.d[y]]]

Task(a, t) == JDict([agent_type |-> a, task |-> t])

-----------------------------------------------------------------------------
(* config.py: the phase policy.                                            *)

PHASE_ALLOWED_AGENTS ==
    [ideation |-> <<"product_manager", "research_agent", "brainstorm_agent">>,
     research |-> <<"product_manager", "research_agent", "data_analyst",
                    "user_researcher">>,
     design |-> <<"product_manager", "ux_designer", "ui_designer",
                  "design_agent", "user_researcher">>,
     development |-> <<"product_manager", "technical_architect",
                       "developer_agent", "qa_engineer">>,
     testing |-> <<"product_manager", "qa_engineer", "user_researcher",
                   "data_analyst">>,
     launch |-> <<"product_manager", "marketing_agent", "data_analyst",
                  "launch_coordinator">>]

get_allowed_agents(ph) ==
    IF ph \in DOMAIN PHASE_ALLOWED_AGENTS THEN PHASE_ALLOWED_AGENTS[ph] ELSE <<>>

Allowed(a, ph) == a \in Range(get_allowed_agents(ph))

-----------------------------------------------------------------------------
(* The texts and JSON literals the model draws its inputs from.            *)

SeqsUpTo(S, n) == UNION {[1..k -> S] : k \in 0..n}

\* "aaaa bbbbb": ten characters, two words.
TxtVision == Rep("a", 4) \o <<" ">> \o Rep("b", 5)

\* "cccc ddddd ee": thirteen characters, three words.
TxtSurvey == Rep("c", 4) \o <<" ">> \o Rep("d", 5) \o <<" ", "e", "e">>

\* "AAAA bbbbb dd": shares both words of TxtVision once case-folded.
TxtVisionAgain == Rep("A", 4) \o <<" ">> \o Rep("b", 5) \o <<" ", "d", "d">>

\* "  aaaa    ": ten characters of which four remain once stripped.
TxtPadded == <<" ", " ">> \o Rep("a", 4) \o Rep(" ", 4)

\* "aaaa": four characters.
TxtShort == Rep("a", 4)

\* "bbbbb cccc dd": the text a Modify suggestion writes.
TxtRewritten == Rep("b", 5) \o <<" ">> \o Rep("c", 4) \o <<" ", "d", "d">>

\* Descriptions of many distinct two-letter words: word k of the list
\* cc, cd, ..., mm, and the words a..b of it joined by single blanks.
Letters == <<"c", "d", "e", "f", "g", "h", "i", "j", "k", "l", "m">>

WordNo(k) == <<Letters[(k \div 11) + 1], Letters[(k % 11) + 1]>>

TxtWords(a, b) ==
    [i \in 1..(3 * (b - a + 1) - 1) |->
        IF i % 3 = 0 THEN " " ELSE WordNo(a + ((i - 1) \div 3))[i % 3]]

\* 90 distinct words, and 90 distinct words of which it shares 63.
TxtNinety == TxtWords(0, 89)

TxtNinetyShifted == TxtWords(27, 116)

ActAdd == <<"a", "d", "d">>

ActModify == <<"m", "o", "d", "i", "f", "y">>

ActRemove == <<"r", "e", "m", "o", "v", "e">>

ActRemoveUpper == <<"R", "e", "m", "o", "v", "e">>

ActMerge == <<"m", "e", "r", "g", "e">>

Add(a, t) == JDict([action |-> ActAdd, agent_type |-> a, task |-> t])

AddNoAgent(t) == JDict([action |-> ActAdd, task |-> t])

Modify(n, t) == JDict([action |-> ActModify, step |-> n, new_task |-> t])

Remove(n) == JDict([action |-> ActRemove, step |-> n])

RemoveNoStep == JDict([action |-> ActRemove])

-----------------------------------------------------------------------------
(* enhancer.py: apply_suggestions.                                         *)

NoChange == [plan |-> <<>>, changes |-> <<>>, raised |-> "none"]

\* enhancer.py 54: suggestion.get("action", "").lower()
ActionOf(s) == Lower(Get(s, "action", <<>>))

\* enhancer.py 53-61: the partition of the suggestions by action.
SuggestionsWith(suggestions, act) ==
    SelectSeq(suggestions, LAMBDA s : ActionOf(s) = act)

\* ModifyOne with the whole entry replaced instead of its task text.
ModifyOneWholeEntry(r, s) ==
    LET n == Get(s, "step", 0)
        new_task == Get(s, "new_task", <<>>)
        index == n - 1
    IN  IF r.raised # "none" THEN r
        ELSE IF 0 <= index /\ index < Len(r.plan)
        THEN [r EXCEPT
                !.plan[index + 1] = JDict([task |-> new_task]),
                !.changes = Append(@, [kind |-> "modified", step |-> n,
                                       old |-> Take(r.plan[index + 1].d["task"], 50),
                                       new |-> Take(new_task, 50)])]
        ELSE r

\* enhancer.py 64-78: one Modify suggestion.
ModifyOne(r, s) ==
    LET n == Get(s, "step", 0)
        new_task == Get(s, "new_task", <<>>)
        index == n - 1
    IN  IF r.raised # "none" THEN r
        ELSE IF 0 <= index /\ index < Len(r.plan)
        THEN IF ~IsDict(r.plan[index + 1])
             THEN [r EXCEPT !.raised = "TypeError"]
             ELSE IF ~Has(r.plan[index + 1], "task")
             THEN [r EXCEPT !.raised = "KeyError"]
             ELSE [r EXCEPT
                     !.plan[index + 1] = Put(@, "task", new_task),
                     !.changes = Append(@, [kind |-> "modified", step |-> n,
                                            old |-> Take(r.plan[index + 1].d["task"], 50),
                                            new |-> Take(new_task, 50)])]
        ELSE r

RECURSIVE ApplyModifies(_, _)
ApplyModifies(r, modifies) ==
    IF modifies = <<>> THEN r
    ELSE ApplyModifies(ModifyOne(r, Head(modifies)), Tail(modifies))

\* AddOne without the phase check of line 87.
AddOneAnyAgent(r, s, ph) ==
    LET agent_type == Get(s, "agent_type", "product_manager")
        task == Get(s, "task", <<>>)
    IN  IF r.raised # "none" THEN r
        ELSE [r EXCEPT
                !.plan = Append(@, Task(agent_type, task)),
                !.changes = Append(@, [kind |-> "added", agent_type |-> agent_type,
                                       task |-> Take(task, 50)])]

\* AddOne without the change-log entry of line 96.
AddOneUnlogged(r, s, ph) ==
    LET agent_type == Get(s, "agent_type", "product_manager")
        task == Get(s, "task", <<>>)
    IN  IF r.raised # "none" THEN r
        ELSE IF ~Allowed(agent_type, ph) THEN r
        ELSE [r EXCEPT !.plan = Append(@, Task(agent_type, task))]

\* enhancer.py 81-97: one Add suggestion.
AddOne(r, s, ph) ==
    LET agent_type == Get(s, "agent_type", "product_manager")
        task == Get(s, "task", <<>>)
    IN  IF r.raised # "none" THEN r
        ELSE IF ~Allowed(agent_type, ph) THEN r
        ELSE [r EXCEPT
                !.plan = Append(@, Task(agent_type, task)),
                !.changes = Append(@, [kind |-> "added", agent_type |-> agent_type,
                                       task |-> Take(task, 50)])]

RECURSIVE ApplyAdds(_, _, _)
ApplyAdds(r, adds, ph) ==
    IF adds = <<>> THEN r
    ELSE ApplyAdds(AddOne(r, Head(adds), ph), Tail(adds), ph)

StepOf(s) == Get(s, "step", 0)

\* A stable insertion into a list sorted by descending step.
RECURSIVE InsertDescending(_, _)
InsertDescending(sorted, s) ==
    IF sorted = <<>> THEN <<s>>
    ELSE IF StepOf(Head(sorted)) >= StepOf(s)
         THEN <<Head(sorted)>> \o InsertDescending(Tail(sorted), s)
         ELSE <<s>> \o sorted

RECURSIVE SortDescending(_, _)
SortDescending(sorted, rest) ==
    IF rest = <<>> THEN sorted
    ELSE SortDescending(InsertDescending(sorted, Head(rest)), Tail(rest))

KeepInputOrder(removes) == removes

\* enhancer.py 100: removes.sort(key=lambda x: x.get("step", 0), reverse=True)
SortRemoves(removes) == SortDescending(<<>>, removes)

Pop(p, i) == SubSeq(p, 1, i - 1) \o SubSeq(p, i + 1, Len(p))

\* RemoveOne with the lower bound of line 108 one too low: index -1 pops the
\* last entry, as list.pop(-1) does.
RemoveOneNegativeIndex(r, s) ==
    LET n == Get(s, "step", 0)
        index == IF n = 0 THEN Len(r.plan) - 1 ELSE n - 1
    IN  IF r.raised # "none" THEN r
        ELSE IF 0 <= index /\ index < Len(r.plan)
        THEN [r EXCEPT
                !.plan = Pop(@, index + 1),
                !.changes = Append(@, [kind |-> "removed", step |-> n,
                                       task |-> Take(r.plan[index + 1].d["task"], 50)])]
        ELSE r

\* enhancer.py 101-113: one Remove suggestion.
RemoveOne(r, s) ==
    LET n == Get(s, "step", 0)
        index == n - 1
    IN  IF r.raised # "none" THEN r
        ELSE IF 0 <= index /\ index < Len(r.plan)
        THEN IF ~IsDict(r.plan[index + 1])
             THEN [r EXCEPT !.raised = "TypeError"]
             ELSE IF ~Has(r.plan[index + 1], "task")
             THEN [r EXCEPT !.raised = "KeyError"]
             ELSE [r EXCEPT
                     !.plan = Pop(@, index + 1),
                     !.changes = Append(@, [kind |-> "removed", step |-> n,
                                            task |-> Take(r.plan[index + 1].d["task"], 50)])]
        ELSE r

RECURSIVE ApplyRemoves(_, _)
ApplyRemoves(r, removes) ==
    IF removes = <<>> THEN r
    ELSE ApplyRemoves(RemoveOne(r, Head(removes)), Tail(removes))

\* enhancer.py 24-115.  input_plan is the caller's list after the call: the
\* copy of line 41 is shallow, so a Modify writes into the caller's dicts.
apply_suggestions(p, suggestions, ph) ==
    IF \E i \in DOMAIN suggestions : ~IsDict(suggestions[i])
    THEN [plan |-> <<>>, changes |-> <<>>, raised |-> "AttributeError",
          input_plan |-> p]
    ELSE LET modified == ApplyModifies([NoChange EXCEPT !.plan = p],
                                       SuggestionsWith(suggestions, ActModify))
             added == ApplyAdds(modified, SuggestionsWith(suggestions, ActAdd), ph)
             removed == ApplyRemoves(added,
                            SortRemoves(SuggestionsWith(suggestions, ActRemove)))
         IN  [plan |-> removed.plan, changes |-> removed.changes,
              raised |-> removed.raised,
              input_plan |-> SubSeq(modified.plan, 1, Len(p))]

-----------------------------------------------------------------------------
(* The state of a run at construction (config.py, AppState) and of the     *)
(* collaborators around it.                                                *)

RunPhases == {"ideation", "design", "archive"}

AppStateInit(inp, ph) ==
    /\ input = inp
    /\ phase = ph
    /\ step = 0
    /\ plan = <<>>
    /\ reviewed_plan = <<>>
    /\ enhanced_plan = <<>>
    /\ results = <<>>
    /\ done = FALSE
    /\ judge_feedback = <<>>
    /\ validation_errors = <<>>

WorldInit ==
    /\ error = "none"
    /\ raw_output = <<>>
    /\ llm_calls = <<>>
    /\ semantic_memory = <<>>

appstate == <<input, phase, plan, reviewed_plan, enhanced_plan, step, results,
              done, judge_feedback, validation_errors>>

world == <<error, raw_output, llm_calls, semantic_memory>>

-----------------------------------------------------------------------------
(* apply_suggestions called on its own, on every plan and suggestion list  *)
(* within the bounds.                                                      *)

ApplyTasks ==
    {Task("product_manager", TxtVision), Task("research_agent", TxtSurvey)}

ApplySuggestions ==
    {Remove(n) : n \in 0..(MaxPlanLen + 1)}
        \cup {RemoveNoStep,
              JDict([action |-> ActRemoveUpper, step |-> 1]),
              Modify(1, TxtRewritten),
              Modify(2, TxtSurvey),
              Modify(MaxPlanLen + 1, TxtRewritten),
              Modify(-1, TxtRewritten),
              Add("product_manager", TxtSurvey),
              Add("ux_designer", TxtVision),
              AddNoAgent(TxtShort),
              JDict([action |-> ActMerge, step |-> 1]),
              JInt}

InitApply ==
    /\ pc = "apply_suggestions"
    /\ args \in [plan : SeqsUpTo(ApplyTasks, MaxPlanLen),
                 suggestions : SeqsUpTo(ApplySuggestions, MaxSuggestions),
                 phase : RunPhases]
    /\ ret = [NoChange EXCEPT !.plan = <<>>]
    /\ AppStateInit("request", "ideation")
    /\ WorldInit

CallApplySuggestions ==
    /\ pc = "apply_suggestions"
    /\ ret' = apply_suggestions(args.plan, args.suggestions, args.phase)
    /\ pc' = "returned"
    /\ UNCHANGED <<args, appstate, world>>

NextApply == CallApplySuggestions

SpecApply == InitApply /\ [][NextApply]_vars

-----------------------------------------------------------------------------
(* Claims about apply_suggestions.                                         *)

Applied == pc = "returned" /\ "suggestions" \in DOMAIN args

IsRemoveEntry(s) ==
    IsDict(s) /\ Get(s, "action", <<>>) = ActRemove /\ Has(s, "step")

IsAddEntry(s) ==
    /\ IsDict(s)
    /\ Get(s, "action", <<>>) = ActAdd
    /\ Has(s, "agent_type")
    /\ Has(s, "task")

OnlyInBoundsRemoves ==
    \A i \in DOMAIN args.suggestions :
        /\ IsRemoveEntry(args.suggestions[i])
        /\ args.suggestions[i].d["step"] \in 1..Len(args.plan)

ReferencedSteps == {args.suggestions[i].d["step"] : i \in DOMAIN args.suggestions}

DistinctSteps ==
    \A i, j \in DOMAIN args.suggestions :
        i # j => args.suggestions[i].d["step"] # args.suggestions[j].d["step"]

\* p without the entries at the 1-based positions of S, the rest in order.
RECURSIVE WithoutFrom(_, _, _)
WithoutFrom(p, S, i) ==
    IF i > Len(p) THEN <<>>
    ELSE (IF i \in S THEN <<>> ELSE <<p[i]>>) \o WithoutFrom(p, S, i + 1)

Without(p, S) == WithoutFrom(p, S, 1)

\* C1: for every list of Remove suggestions whose steps are all in bounds,
\* in any order, apply_suggestions returns the input plan with exactly the
\* tasks at the referenced positions deleted, the rest in their order.
C1_RemovesExactlyTheReferenced ==
    (Applied /\ OnlyInBoundsRemoves) =>
        /\ ret.raised = "none"
        /\ ret.plan = Without(args.plan, ReferencedSteps)

\* C2: for Remove suggestions with pairwise distinct in-bounds steps, in any
\* order, the removals are made in descending step order and the result is
\* the input plan without exactly the referenced positions.
C2_DistinctRemovesDescending ==
    (Applied /\ OnlyInBoundsRemoves /\ DistinctSteps) =>
        /\ ret.raised = "none"
        /\ ret.plan = Without(args.plan, ReferencedSteps)
        /\ Len(ret.changes) = Len(args.suggestions)
        /\ \A i \in DOMAIN ret.changes :
              /\ ret.changes[i].kind = "removed"
              /\ ret.changes[i].step \in ReferencedSteps
              /\ ret.changes[i].task = Take(args.plan[ret.changes[i].step].d["task"], 50)
              /\ \A j \in DOMAIN ret.changes :
                    i < j => ret.changes[i].step > ret.changes[j].step

\* The scenario of C2: a plan of three tasks, Remove(step=1) then
\* Remove(step=3), leaves only the original second task.
C2_Witness ==
    /\ Applied
    /\ args.suggestions = <<Remove(1), Remove(3)>>
    /\ Len(args.plan) = 3
    /\ args.plan[1] # args.plan[2]
    /\ args.plan[3] # args.plan[2]
    /\ ret.plan = <<args.plan[2]>>

OnlyAdds == \A i \in DOMAIN args.suggestions : IsAddEntry(args.suggestions[i])

AllowedAdds ==
    {i \in DOMAIN args.suggestions :
        Allowed(args.suggestions[i].d["agent_type"], args.phase)}

\* C3: for every suggestion list of Add entries only, every entry of the
\* input plan keeps its position and content, and the plan grows by exactly
\* the number of Add entries whose agent_type the phase allows.
C3_AddsOnlyAppendAllowed ==
    (Applied /\ OnlyAdds) =>
        /\ ret.raised = "none"
        /\ Len(ret.plan) = Len(args.plan) + Cardinality(AllowedAdds)
        /\ SubSeq(ret.plan, 1, Len(args.plan)) = args.plan

\* An allowed and a disallowed Add applied to a non-empty plan.
C3_Witness ==
    /\ Applied
    /\ OnlyAdds
    /\ args.plan # <<>>
    /\ Cardinality(AllowedAdds) = 1
    /\ Len(args.suggestions) = 2
    /\ Len(ret.plan) = Len(args.plan) + 1

-----------------------------------------------------------------------------
(* judge.py: validate_plan_structure.                                      *)

MinTaskLen == 10

\* judge.py 40-51 with the threshold of line 49 off by one.
FieldErrorsOffByOne(t, i) ==
    IF ~IsDict(t) THEN <<[kind |-> "not_a_dict", task |-> i]>>
    ELSE (IF ~Has(t, "agent_type")
          THEN <<[kind |-> "missing_agent_type", task |-> i]>> ELSE <<>>)
         \o (IF ~Has(t, "task") THEN <<[kind |-> "missing_task", task |-> i]>>
             ELSE IF Len(Strip(t.d["task"])) <= MinTaskLen
                  THEN <<[kind |-> "too_short", task |-> i]>>
                  ELSE <<>>)

\* judge.py 40-51: the errors of Check 2 for the task at 1-based position i.
FieldErrors(t, i) ==
    IF ~IsDict(t) THEN <<[kind |-> "not_a_dict", task |-> i]>>
    ELSE (IF ~Has(t, "agent_type")
          THEN <<[kind |-> "missing_agent_type", task |-> i]>> ELSE <<>>)
         \o (IF ~Has(t, "task") THEN <<[kind |-> "missing_task", task |-> i]>>
             ELSE IF Len(Strip(t.d["task"])) < MinTaskLen
                  THEN <<[kind |-> "too_short", task |-> i]>>
                  ELSE <<>>)

\* judge.py 39: the loop of Check 2.
RECURSIVE FieldCheck(_, _)
FieldCheck(p, i) ==
    IF i > Len(p) THEN <<>> ELSE FieldErrors(p[i], i) \o FieldCheck(p, i + 1)

\* judge.py 56-61 with no error reported.
AgentErrorsSilent(t, i, ph) == <<>>

\* judge.py 56-61: the error of Check 3 for the task at 1-based position i.
AgentErrors(t, i, ph) ==
    LET agent_type == Get(t, "agent_type", "")
    IN  IF ~Allowed(agent_type, ph)
        THEN <<[kind |-> "not_allowed", task |-> i, agent |-> agent_type,
                allowed |-> get_allowed_agents(ph)]>>
        ELSE <<>>

\* judge.py 55: the loop of Check 3.
RECURSIVE AgentCheck(_, _, _)
AgentCheck(p, i, ph) ==
    IF i > Len(p) THEN <<>>
    ELSE AgentErrors(p[i], i, ph) \o AgentCheck(p, i + 1, ph)

\* judge.py 73: the bucket of a task in Check 5.
AgentKey(t) == Get(t, "agent_type", "unknown")

\* judge.py 74, 87-88: the word set of a task's case-folded description.
Words(t) == WordSet(Lower(Get(t, "task", <<>>)))

Min(a, b) == IF a < b THEN a ELSE b

\* judge.py 90: the word counts m below 200 for which the binary64 product
\* 0.7 * m is an integer's worth below the exact 7m/10 (0.7 * 90 is
\* 62.99999999999999), so that an overlap of exactly 7m/10 compares greater.
RoundsBelow == {90, 170, 180}

\* judge.py 89-90: overlap > 0.7 * min(len(words1), len(words2)), in tenths,
\* the product rounded as binary64 rounds it.
Similar(t1, t2) ==
    LET overlap == Cardinality(Words(t1) \cap Words(t2))
        m == Min(Cardinality(Words(t1)), Cardinality(Words(t2)))
    IN  IF m \in RoundsBelow THEN 10 * overlap >= 7 * m
        ELSE 10 * overlap > 7 * m

\* judge.py 84-94: the pairs (k1, k2), k1 < k2, of the bucket of agent a.
RECURSIVE BucketErrors(_, _, _, _)
BucketErrors(p, a, k1, k2) ==
    IF k1 > Len(p) THEN <<>>
    ELSE IF k2 > Len(p) THEN BucketErrors(p, a, k1 + 1, k1 + 2)
    ELSE (IF AgentKey(p[k1]) = a /\ AgentKey(p[k2]) = a /\ Similar(p[k1], p[k2])
          THEN <<[kind |-> "similar", first |-> k1, second |-> k2, agent |-> a]>>
          ELSE <<>>)
         \o BucketErrors(p, a, k1, k2 + 1)

\* judge.py 71-94: the buckets in the order their agents first occur.
RECURSIVE DuplicateCheck(_, _)
DuplicateCheck(p, i) ==
    IF i > Len(p) THEN <<>>
    ELSE (IF \A j \in 1..(i - 1) : AgentKey(p[j]) # AgentKey(p[i])
          THEN BucketErrors(p, AgentKey(p[i]), i, i + 1)
          ELSE <<>>)
         \o DuplicateCheck(p, i + 1)

\* judge.py 34 with the test never true.
EmptyNotChecked(p) == FALSE

\* judge.py 34: not plan or len(plan) == 0
PlanIsEmpty(p) == p = <<>>

\* judge.py 18-98.  Check 3 calls task.get on every element, which raises
\* AttributeError on an element that is not a dict.
validate_plan_structure(p, ph) ==
    IF PlanIsEmpty(p)
    THEN [valid |-> FALSE, errors |-> <<[kind |-> "empty"]>>, raised |-> "none"]
    ELSE IF \E i \in DOMAIN p : ~IsDict(p[i])
    THEN [valid |-> FALSE, errors |-> <<>>, raised |-> "AttributeError"]
    ELSE LET errors == FieldCheck(p, 1) \o AgentCheck(p, 1, ph)
                           \o DuplicateCheck(p, 1)
         IN  [valid |-> errors = <<>>, errors |-> errors, raised |-> "none"]

-----------------------------------------------------------------------------
(* validate_plan_structure called on its own, on every plan within the     *)
(* bounds.                                                                 *)

ValidateItems ==
    {Task(a, t) : a \in {"product_manager", "ux_designer"},
                  t \in {TxtVision, TxtSurvey, TxtVisionAgain, TxtPadded, TxtShort}}
        \cup {JDict([task |-> TxtVision]),
              JDict([agent_type |-> "product_manager"]),
              JInt,
              Task("product_manager", TxtNinety),
              Task("product_manager", TxtNinetyShifted)}

InitValidate ==
    /\ pc = "validate_plan_structure"
    /\ args \in [plan : SeqsUpTo(ValidateItems, MaxPlanLen), phase : RunPhases]
    /\ ret = [valid |-> FALSE, errors |-> <<>>, raised |-> "none"]
    /\ AppStateInit("request", "ideation")
    /\ WorldInit

CallValidatePlanStructure ==
    /\ pc = "validate_plan_structure"
    /\ ret' = validate_plan_structure(args.plan, args.phase)
    /\ pc' = "returned"
    /\ UNCHANGED <<args, appstate, world>>

NextValidate == CallValidatePlanStructure

SpecValidate == InitValidate /\ [][NextValidate]_vars

-----------------------------------------------------------------------------
(* Claims about validate_plan_structure.                                   *)

Validated == pc = "returned" /\ "valid" \in DOMAIN ret

IsTaskRecord(t) == IsDict(t) /\ Has(t, "agent_type") /\ Has(t, "task")

\* At least one task, every description of at least 10 characters, every
\* agent_type allowed in the phase.
LongAndAllowed ==
    /\ args.plan # <<>>
    /\ \A i \in DOMAIN args.plan :
          /\ IsTaskRecord(args.plan[i])
          /\ Len(args.plan[i].d["task"]) >= 10
          /\ Allowed(args.plan[i].d["agent_type"], args.phase)

StrippedLong ==
    \A i \in DOMAIN args.plan : Len(Strip(args.plan[i].d["task"])) >= 10

\* The words two tasks of the plan share, and the smaller of their word sets.
SharedWords(i, j) == Cardinality(Words(args.plan[i]) \cap Words(args.plan[j]))

SmallerWordSet(i, j) ==
    Min(Cardinality(Words(args.plan[i])), Cardinality(Words(args.plan[j])))

NoNearDuplicates ==
    \A i, j \in DOMAIN args.plan :
        (i < j /\ args.plan[i].d["agent_type"] = args.plan[j].d["agent_type"])
            => 10 * SharedWords(i, j) < 7 * SmallerWordSet(i, j)

\* C4 as stated: every plan with at least one task, descriptions of at least
\* 10 characters and allowed agents is valid, with an empty error list.
C4_LongAllowedPlanIsValid ==
    (Validated /\ LongAndAllowed) =>
        ret.raised = "none" /\ ret.valid /\ ret.errors = <<>>

\* C4 as amended: such a plan is valid with an empty error list when, in
\* addition, every description still has at least 10 characters once its
\* surrounding whitespace is stripped and any two tasks of one agent_type
\* share fewer than 0.7 of the smaller of their case-folded word sets.
C4_StrippedDistinctPlanIsValid ==
    (Validated /\ LongAndAllowed /\ StrippedLong /\ NoNearDuplicates) =>
        ret.raised = "none" /\ ret.valid /\ ret.errors = <<>>

\* A plan of two tasks of one agent, one description of exactly 10
\* characters, that validates.
C4_Witness ==
    /\ Validated
    /\ LongAndAllowed /\ StrippedLong /\ NoNearDuplicates
    /\ Len(args.plan) = 2
    /\ args.plan[1].d["agent_type"] = args.plan[2].d["agent_type"]
    /\ Len(args.plan[1].d["task"]) = 10
    /\ ret.valid

-----------------------------------------------------------------------------
(* Texts of the completion engine: the regular expression and the JSON     *)
(* parser that the planner, the judge and the enhancer run over them.      *)

JList(items) == [kind |-> "list", d |-> [items |-> items]]

\* The JSON literal each literal token stands for.
Literal ==
    [pm |-> Task("product_manager", TxtVision),
     ra |-> Task("research_agent", TxtSurvey),
     ux |-> Task("ux_designer", TxtSurvey),
     da |-> Task("data_analyst", TxtSurvey),
     qa |-> Task("qa_engineer", TxtSurvey),
     pm_short |-> Task("product_manager", TxtShort),
     pm_again |-> Task("product_manager", TxtVisionAgain),
     no_agent |-> JDict([task |-> TxtVision]),
     one |-> JInt,
     add_pm |-> Add("product_manager", TxtSurvey),
     add_ux |-> Add("ux_designer", TxtSurvey),
     add_da |-> Add("data_analyst", TxtVision),
     add_short |-> Add("product_manager", TxtShort),
     modify1 |-> Modify(1, TxtRewritten),
     remove1 |-> Remove(1),
     remove2 |-> Remove(2)]

\* re.search(r'\[.*\]', text, re.DOTALL): from the first "[" to the last "]"
\* that follows it.
Opens(text) == {i \in DOMAIN text : text[i] = "["}

Closes(text) == {i \in DOMAIN text : text[i] = "]"}

SetMin(S) == CHOOSE m \in S : \A n \in S : m <= n

SetMax(S) == CHOOSE m \in S : \A n \in S : m >= n

NoMatch == [found |-> FALSE, group |-> <<>>]

RegexSearch(text) ==
    IF Opens(text) = {} \/ Closes(text) = {} THEN NoMatch
    ELSE IF SetMax(Closes(text)) < SetMin(Opens(text)) THEN NoMatch
    ELSE [found |-> TRUE,
          group |-> SubSeq(text, SetMin(Opens(text)), SetMax(Closes(text)))]

JSONDecodeError == [ok |-> FALSE, val |-> JInt, next |-> 0]

\* json.loads: value := literal | "[" "]" | "[" value ("," value)* "]".
RECURSIVE ParseValue(_, _)
RECURSIVE ParseItems(_, _, _, _)
ParseValue(t, i) ==
    IF i > Len(t) THEN JSONDecodeError
    ELSE IF t[i] \in DOMAIN Literal
         THEN [ok |-> TRUE, val |-> Literal[t[i]], next |-> i + 1]
    ELSE IF t[i] = "[" THEN ParseItems(t, i + 1, <<>>, TRUE)
    ELSE JSONDecodeError

ParseItems(t, i, acc, first) ==
    IF i > Len(t) THEN JSONDecodeError
    ELSE IF first /\ t[i] = "]"
         THEN [ok |-> TRUE, val |-> JList(acc), next |-> i + 1]
    ELSE LET v == ParseValue(t, i)
         IN  IF ~v.ok \/ v.next > Len(t) THEN JSONDecodeError
             ELSE IF t[v.next] = ","
                  THEN ParseItems(t, v.next + 1, Append(acc, v.val), FALSE)
             ELSE IF t[v.next] = "]"
                  THEN [ok |-> TRUE, val |-> JList(Append(acc, v.val)),
                        next |-> v.next + 1]
             ELSE JSONDecodeError

json_loads(t) ==
    LET v == ParseValue(t, 1)
    IN  IF v.ok /\ v.next = Len(t) + 1 THEN v ELSE JSONDecodeError

\* The text of a JSON array of the given literal tokens.
RECURSIVE Joined(_)
Joined(items) ==
    IF items = <<>> THEN <<>>
    ELSE IF Len(items) = 1 THEN items
    ELSE <<Head(items), ",">> \o Joined(Tail(items))

ArrayText(items) == <<"[">> \o Joined(items) \o <<"]">>

-----------------------------------------------------------------------------
(* planner.py: planner_node.                                               *)

\* f"Clarify the user's request for the {current_phase} phase"; the phase
\* name stands as one element of the text.
TxtClarify(ph) ==
           <<"C", "l", "a", "r", "i", "f", "y", " ", "t", "h", "e", " ">>
        \o <<"u", "s", "e", "r", "'", "s", " ", "r", "e", "q", "u", "e">>
        \o <<"s", "t", " ", "f", "o", "r", " ", "t", "h", "e", " ">>
        \o <<ph>> \o <<" ", "p", "h", "a", "s", "e">>

\* f"Review and plan appropriate tasks for {current_phase} phase"
TxtReview(ph) ==
           <<"R", "e", "v", "i", "e", "w", " ", "a", "n", "d", " ", "p">>
        \o <<"l", "a", "n", " ", "a", "p", "p", "r", "o", "p", "r", "i">>
        \o <<"a", "t", "e", " ", "t", "a", "s", "k", "s", " ", "f", "o">>
        \o <<"r", " ">>
        \o <<ph>> \o <<" ", "p", "h", "a", "s", "e">>

\* planner.py 141-151: the filter of the parsed items.
KeepAllItems(items, ph) == items

FilterAllowed(items, ph) ==
    SelectSeq(items, LAMBDA item :
        Allowed(Get(item, "agent_type", "product_manager"), ph))

\* planner.py 153-160 without the fallback.
NoFallback(validated_plan, ph) == validated_plan

\* planner.py 153-160: the fallback when every item was filtered out.
OrFallback(validated_plan, ph) ==
    IF validated_plan = <<>>
    THEN <<Task("product_manager", TxtReview(ph))>>
    ELSE validated_plan

\* planner.py 117-183, from the completion engine's answer to the return:
\* the plan returned, whether the user input was recorded in semantic
\* memory, and the exception raised instead.
planner_node(raw, ph) ==
    LET match == RegexSearch(raw)
        parsed == json_loads(match.group)
    IN  IF ~match.found
        THEN [plan |-> <<Task("product_manager", TxtClarify(ph))>>,
              recorded |-> FALSE, raised |-> "none"]
        ELSE IF ~parsed.ok
        THEN [plan |-> <<Task("product_manager", TxtClarify(ph))>>,
              recorded |-> TRUE, raised |-> "none"]
        ELSE IF \E i \in DOMAIN parsed.val.d.items : ~IsDict(parsed.val.d.items[i])
        THEN [plan |-> <<>>, recorded |-> FALSE, raised |-> "AttributeError"]
        ELSE [plan |-> OrFallback(FilterAllowed(parsed.val.d.items, ph), ph),
              recorded |-> TRUE, raised |-> "none"]

-----------------------------------------------------------------------------
(* judge.py: judge_node.                                                   *)

\* The report of lines 240-249 around the completion engine's feedback, and
\* the summary of lines 215-217: prose without brackets.
Prose == <<"x">>

\* judge.py 209-223 with the semantic review made before the return.
StructuralFailureReviewed(p, v) ==
    [reviewed_plan |-> p, judge_feedback |-> Prose,
     validation_errors |-> v.errors, called_llm |-> TRUE, raised |-> "none"]

\* judge.py 209-223: the return on a structural failure.
StructuralFailure(p, v) ==
    [reviewed_plan |-> p, judge_feedback |-> Prose,
     validation_errors |-> v.errors, called_llm |-> FALSE, raised |-> "none"]

\* judge.py 241-258 with an empty list returned for the reviewed plan.
SemanticReviewDropsPlan(p, reply) ==
    [reviewed_plan |-> <<>>,
     judge_feedback |-> Prose \o reply.text \o Prose,
     validation_errors |-> <<>>, called_llm |-> TRUE,
     raised |-> "none"]

\* judge.py 227-258: the report built around the completion engine's text
\* and the update returned after a structural pass.
SemanticReview(p, reply) ==
    [reviewed_plan |-> p,
     judge_feedback |-> Prose \o reply.text \o Prose,
     validation_errors |-> <<>>, called_llm |-> TRUE,
     raised |-> "none"]

\* judge.py 182-258.  reply is the completion engine's answer to the
\* semantic review, used only on a structural pass.
judge_node(p, ph, reply) ==
    LET v == validate_plan_structure(p, ph)
    IN  IF v.raised # "none"
        THEN [reviewed_plan |-> <<>>, judge_feedback |-> <<>>,
              validation_errors |-> <<>>, called_llm |-> FALSE,
              raised |-> v.raised]
        ELSE IF ~v.valid
        THEN StructuralFailure(p, v)
        ELSE IF ~reply.ok
        THEN [reviewed_plan |-> <<>>, judge_feedback |-> <<>>,
              validation_errors |-> <<>>, called_llm |-> TRUE,
              raised |-> "CompletionEngineFailure"]
        ELSE SemanticReview(p, reply)

-----------------------------------------------------------------------------
(* enhancer.py: extract_suggestions_from_feedback and enhancer_node.       *)

\* enhancer.py 118-141
extract_suggestions_from_feedback(feedback) ==
    LET match == RegexSearch(feedback)
        parsed == json_loads(match.group)
    IN  IF ~match.found THEN <<>>
        ELSE IF ~parsed.ok THEN <<>>
        ELSE parsed.val.d.items

\* enhancer.py 172 with the validation errors never seen.
ErrorsIgnored(errors) == FALSE

\* enhancer.py 172: validation_errors and len(validation_errors) > 0
HasValidationErrors(errors) == errors # <<>>

\* enhancer.py 144-210
enhancer_node(reviewed, feedback, errors, ph) ==
    LET suggestions == extract_suggestions_from_feedback(feedback)
        applied == apply_suggestions(reviewed, suggestions, ph)
    IN  IF HasValidationErrors(errors)
        THEN [enhanced_plan |-> reviewed, applied |-> FALSE, raised |-> "none",
              reviewed_plan |-> reviewed]
        ELSE IF suggestions = <<>>
        THEN [enhanced_plan |-> reviewed, applied |-> FALSE, raised |-> "none",
              reviewed_plan |-> reviewed]
        ELSE [enhanced_plan |-> applied.plan, applied |-> TRUE,
              raised |-> applied.raised, reviewed_plan |-> applied.input_plan]

-----------------------------------------------------------------------------
(* executor.py: executor_node.                                             *)

\* executor.py 118-124 with the brainstorm role in the list as well.
EveryAgentImportant ==
    {"product_manager", "research_agent", "design_agent", "ux_designer",
     "data_analyst", "brainstorm_agent"}

important_agents ==
    {"product_manager", "research_agent", "design_agent", "ux_designer",
     "data_analyst"}

\* executor.py 44 with the enhanced plan read whatever it holds.
EnhancedPlanOnly(enhanced, reviewed) == enhanced

\* executor.py 44: state.enhanced_plan if state.enhanced_plan else
\* state.reviewed_plan; an empty list is false.
PlanToExecute(enhanced, reviewed) ==
    IF enhanced # <<>> THEN enhanced ELSE reviewed

\* executor.py 145-149 with the flag set once the cursor reaches the end.
DoneWhenExhausted(p, next_step) == next_step >= Len(p)

\* executor.py 148: "done": False
DoneAfterTask(p, next_step) == FALSE

\* executor.py 54-61 with the completion engine invoked before the return.
CompletedAfterACall(res, n) ==
    [done |-> TRUE, results |-> res, step |-> n, called_llm |-> TRUE,
     memory |-> <<>>, raised |-> "none"]

\* executor.py 54-61 with the flag left unset.
NeverCompleted(res, n) ==
    [done |-> FALSE, results |-> res, step |-> n, called_llm |-> FALSE,
     memory |-> <<>>, raised |-> "none"]

\* executor.py 54-61: the return when the cursor has reached the end of the
\* plan; the update names done and results only, so the cursor stays.
AllTasksCompleted(res, n) ==
    [done |-> TRUE, results |-> res, step |-> n, called_llm |-> FALSE,
     memory |-> <<>>, raised |-> "none"]

\* executor.py 64 with the first task read whatever the cursor.
FirstTask(p, n) == p[1]

\* executor.py 64: plan[step]
CurrentTask(p, n) == p[n + 1]

\* executor.py 106-111 with a failure of the call taken for an answer.
FailureUnnoticed(reply) == "output"

\* executor.py 106-111: the answer of the completion engine, or the error
\* string that stands for it when the call fails.
TaskOutput(reply) == IF reply.ok THEN "output" ELSE "Error executing task"

\* executor.py 147 with the cursor left where it was.
StepStays(n) == n

\* executor.py 147: "step": step + 1
NextStep(n) == n + 1

\* executor.py 25-149.  reply is the completion engine's answer for the
\* task, used only when a task is executed.
executor_node(enhanced, reviewed, n, res, ph, reply) ==
    LET p == PlanToExecute(enhanced, reviewed)
        current_task == CurrentTask(p, n)
        agent_type == Get(current_task, "agent_type", "product_manager")
        task == Get(current_task, "task", <<>>)
        output == TaskOutput(reply)
    IN  IF n >= Len(p)
        THEN AllTasksCompleted(res, n)
        ELSE IF ~IsDict(current_task)
        THEN [done |-> FALSE, results |-> res, step |-> n, called_llm |-> FALSE,
              memory |-> <<>>, raised |-> "AttributeError"]
        ELSE [done |-> DoneAfterTask(p, n + 1),
              results |-> Append(res, [agent_type |-> agent_type, task |-> task,
                                       output |-> output]),
              step |-> NextStep(n),
              called_llm |-> TRUE,
              memory |-> IF agent_type \in important_agents
                         THEN <<[text |-> output,
                                 metadata |-> [agent |-> agent_type, phase |-> ph,
                                               task |-> Take(task, 100)]]>>
                         ELSE <<>>,
              raised |-> "none"]

-----------------------------------------------------------------------------
(* Graph.py: the workflow.  Each action is one invocation of a node by the *)
(* engine, with the merge of the node's partial update into the state.     *)

Replies(texts) ==
    {[ok |-> TRUE, text |-> t] : t \in texts} \cup {[ok |-> FALSE, text |-> <<>>]}

Raise(e) ==
    /\ error' = e
    /\ pc' = "raised"

\* Graph.py 45, 55: planner, then judge.
PlannerNode(texts) ==
    /\ pc = "planner"
    /\ llm_calls' = Append(llm_calls, "planner")
    /\ \E reply \in Replies(texts) :
          IF ~reply.ok
          THEN /\ Raise("CompletionEngineFailure")
               /\ UNCHANGED <<appstate, raw_output, semantic_memory>>
          ELSE LET r == planner_node(reply.text, phase)
               IN  /\ raw_output' = reply.text
                   /\ semantic_memory' =
                          IF r.recorded
                          THEN Append(semantic_memory,
                                      [text |-> input,
                                       metadata |-> [type |-> "user_request",
                                                     phase |-> phase]])
                          ELSE semantic_memory
                   /\ IF r.raised # "none"
                      THEN Raise(r.raised) /\ UNCHANGED appstate
                      ELSE /\ plan' = r.plan
                           /\ pc' = "judge"
                           /\ UNCHANGED <<error, input, phase, reviewed_plan,
                                          enhanced_plan, step, results, done,
                                          judge_feedback, validation_errors>>
    /\ UNCHANGED <<args, ret>>

\* Graph.py 46, 58: judge, then enhancer.
JudgeNode(texts) ==
    /\ pc = "judge"
    /\ \E reply \in Replies(texts) :
          LET r == judge_node(plan, phase, reply)
          IN  /\ llm_calls' = IF r.called_llm THEN Append(llm_calls, "judge")
                              ELSE llm_calls
              /\ IF r.raised # "none"
                 THEN Raise(r.raised) /\ UNCHANGED appstate
                 ELSE /\ reviewed_plan' = r.reviewed_plan
                      /\ judge_feedback' = r.judge_feedback
                      /\ validation_errors' = r.validation_errors
                      /\ pc' = "enhancer"
                      /\ UNCHANGED <<error, input, phase, plan, enhanced_plan,
                                     step, results, done>>
    /\ UNCHANGED <<raw_output, semantic_memory, args, ret>>

\* Graph.py 47, 61 with the phase reset by the merge of the enhancer's update.
EnhancerNodeResetsPhase ==
    /\ pc = "enhancer"
    /\ LET r == enhancer_node(reviewed_plan, judge_feedback, validation_errors,
                              phase)
       IN  IF r.raised # "none"
           THEN Raise(r.raised) /\ UNCHANGED appstate
           ELSE /\ enhanced_plan' = r.enhanced_plan
                /\ phase' = "ideation"
                /\ pc' = "executor"
                /\ UNCHANGED <<error, input, plan, reviewed_plan, step,
                               results, done, judge_feedback, validation_errors>>
    /\ UNCHANGED <<raw_output, llm_calls, semantic_memory, args, ret>>

\* Graph.py 47, 61: enhancer, then executor.
EnhancerNode ==
    /\ pc = "enhancer"
    /\ LET r == enhancer_node(reviewed_plan, judge_feedback, validation_errors,
                              phase)
       IN  IF r.raised # "none"
           THEN Raise(r.raised) /\ UNCHANGED appstate
           ELSE /\ enhanced_plan' = r.enhanced_plan
                /\ pc' = "executor"
                /\ UNCHANGED <<error, input, phase, plan, reviewed_plan, step,
                               results, done, judge_feedback, validation_errors>>
    /\ UNCHANGED <<raw_output, llm_calls, semantic_memory, args, ret>>

\* Graph.py 66-80 with the loop leading back to the planner.
LoopBackToPlanner(d) == IF d THEN "end" ELSE "planner"

\* Graph.py 66-80: "__end__" if state.done else "executor"
executor_loop_condition(d) == IF d THEN "end" ELSE "executor"

\* Graph.py 48, 66-84 with the planner's plan cleared by the executor.
ExecutorNodeClearsPlan(texts) ==
    /\ pc = "executor"
    /\ \E reply \in Replies(texts) :
          LET r == executor_node(enhanced_plan, reviewed_plan, step, results,
                                 phase, reply)
          IN  /\ llm_calls' = IF r.called_llm THEN Append(llm_calls, "executor")
                              ELSE llm_calls
              /\ semantic_memory' = semantic_memory \o r.memory
              /\ IF r.raised # "none"
                 THEN Raise(r.raised) /\ UNCHANGED appstate
                 ELSE /\ results' = r.results
                      /\ step' = r.step
                      /\ done' = r.done
                      /\ pc' = executor_loop_condition(r.done)
                      /\ plan' = <<>>
                      /\ UNCHANGED <<error, input, phase, reviewed_plan,
                                     enhanced_plan, judge_feedback,
                                     validation_errors>>
    /\ UNCHANGED <<raw_output, args, ret>>

\* Graph.py 48, 66-84: executor, then executor again or the end.
ExecutorNode(texts) ==
    /\ pc = "executor"
    /\ \E reply \in Replies(texts) :
          LET r == executor_node(enhanced_plan, reviewed_plan, step, results,
                                 phase, reply)
          IN  /\ llm_calls' = IF r.called_llm THEN Append(llm_calls, "executor")
                              ELSE llm_calls
              /\ semantic_memory' = semantic_memory \o r.memory
              /\ IF r.raised # "none"
                 THEN Raise(r.raised) /\ UNCHANGED appstate
                 ELSE /\ results' = r.results
                      /\ step' = r.step
                      /\ done' = r.done
                      /\ pc' = executor_loop_condition(r.done)
                      /\ UNCHANGED <<error, input, phase, plan, reviewed_plan,
                                     enhanced_plan, judge_feedback,
                                     validation_errors>>
    /\ UNCHANGED <<raw_output, args, ret>>

-----------------------------------------------------------------------------
(* The runs of the workflow.                                               *)

RunPlanLiterals == {"pm", "ra", "ux", "pm_short", "pm_again", "no_agent", "one"}

RunPlannerTexts ==
    {ArrayText(items) : items \in SeqsUpTo(RunPlanLiterals, MaxRunItems)}
        \cup {Prose, <<"[", "pm", ",">>}

RunSuggestionLiterals ==
    {"add_pm", "add_ux", "add_short", "modify1", "remove1", "remove2", "one"}

RunFeedbackTexts ==
    {ArrayText(items) : items \in SeqsUpTo(RunSuggestionLiterals, MaxRunSuggestions)}
        \cup {Prose}

TaskReplies == {<<"o", "u", "t", "p", "u", "t">>}

NoCall == [plan |-> <<>>, suggestions |-> <<>>, phase |-> "none"]

Init ==
    /\ pc = "planner"
    /\ \E ph \in RunPhases : AppStateInit("request", ph)
    /\ WorldInit
    /\ args = NoCall
    /\ ret = NoChange

Next ==
    \/ PlannerNode(RunPlannerTexts)
    \/ JudgeNode(RunFeedbackTexts)
    \/ EnhancerNode
    \/ ExecutorNode(TaskReplies)

Spec == Init /\ [][Next]_vars

-----------------------------------------------------------------------------
(* The planner alone, on every text of the completion engine within the    *)
(* bounds.                                                                 *)

PlannerTokens == {"[", "]", ",", "x", "one", "pm", "ux", "no_agent"}

PlannerTexts == SeqsUpTo(PlannerTokens, MaxRawLen)

NextPlanner == PlannerNode(PlannerTexts)

SpecPlanner == Init /\ [][NextPlanner]_vars

-----------------------------------------------------------------------------
(* Claims about the executor loop.                                         *)

ExecutedPlan == PlanToExecute(enhanced_plan, reviewed_plan)

C6_ExecutedTasksMeetFloor ==
    pc \in {"executor", "end"} =>
        \A i \in 1..step :
            /\ IsTaskRecord(ExecutedPlan[i])
            /\ ExecutedPlan[i].d["agent_type"] # ""
            /\ Len(ExecutedPlan[i].d["task"]) >= 10

\* The Enhancer applied suggestions: no validation error, and a non-empty
\* suggestion list in the judge's feedback.
EnhancementOccurred ==
    /\ pc \in {"executor", "end"}
    /\ validation_errors = <<>>
    /\ extract_suggestions_from_feedback(judge_feedback) # <<>>

\* C8: whenever the Enhancer applied suggestions, the tasks executed and the
\* final results correspond one-to-one, in order, to the entries of
\* enhanced_plan.
C8_ExecutesTheEnhancedPlan ==
    (EnhancementOccurred /\ pc = "end") =>
        /\ Len(results) = Len(enhanced_plan)
        /\ \A i \in DOMAIN results :
              /\ results[i].agent_type = enhanced_plan[i].d["agent_type"]
              /\ results[i].task = enhanced_plan[i].d["task"]

-----------------------------------------------------------------------------
(* Claims about the planner.                                               *)

PlannerReturned == pc = "judge"

\* C7: for every phase and every completion-engine response, every task of
\* the plan the planner returns carries an agent_type allowed in the phase,
\* so that Check 3 of the validator reports no error for it.
C7_PlannerPlanIsPhaseAllowed ==
    PlannerReturned =>
        /\ \A i \in DOMAIN plan :
              /\ Has(plan[i], "agent_type")
              /\ Allowed(plan[i].d["agent_type"], phase)
        /\ AgentCheck(plan, 1, phase) = <<>>

\* C9: for every text returned by the completion engine, planner_node
\* returns a plan without raising.
C9_PlannerNeverRaises ==
    (llm_calls = <<"planner">> /\ error # "CompletionEngineFailure") =>
        pc # "raised"

NoArrayFound == ~RegexSearch(raw_output).found

ArrayParsed == ~NoArrayFound /\ json_loads(RegexSearch(raw_output).group).ok

ParsedItems == json_loads(RegexSearch(raw_output).group).val.d.items

EveryTaskDropped ==
    /\ ArrayParsed
    /\ \A i \in DOMAIN ParsedItems :
          ~Allowed(Get(ParsedItems[i], "agent_type", "product_manager"), phase)

\* C10: the plan returned by planner_node is never empty; when no array is
\* found, the array does not parse, the parsed array is empty or filtering
\* drops every task, the plan is exactly one task of product_manager.
C10_PlannerPlanNeverEmpty ==
    PlannerReturned =>
        /\ plan # <<>>
        /\ (NoArrayFound \/ ~ArrayParsed \/ EveryTaskDropped) =>
              /\ Len(plan) = 1
              /\ IsTaskRecord(plan[1])
              /\ plan[1].d["agent_type"] = "product_manager"

\* The planner returned after filtering dropped every task of a non-empty
\* array.
C10_Witness ==
    /\ PlannerReturned
    /\ EveryTaskDropped
    /\ ParsedItems # <<>>
    /\ Len(plan) = 1
    /\ plan[1].d["agent_type"] = "product_manager"

\* C11: every invocation of planner_node that returns a plan, on the normal
\* path, the parse-failure path and the no-array-found path alike, has
\* recorded the user input in semantic memory, tagged with the phase.
C11_PlannerRecordsInput ==
    PlannerReturned =>
        semantic_memory = <<[text |-> input,
                             metadata |-> [type |-> "user_request",
                                           phase |-> phase]]>>

-----------------------------------------------------------------------------
(* extract_suggestions_from_feedback and enhancer_node called on their     *)
(* own, on every feedback text within the bounds.                          *)

MaxFeedbackLen == 4

FeedbackTokens == {"[", "]", ",", "x", "one", "remove1", "modify1"}

FeedbackTexts == SeqsUpTo(FeedbackTokens, MaxFeedbackLen)

InitExtract ==
    /\ pc = "extract_suggestions_from_feedback"
    /\ args \in [feedback : FeedbackTexts]
    /\ ret = [suggestions |-> <<>>]
    /\ AppStateInit("request", "ideation")
    /\ WorldInit

CallExtractSuggestions ==
    /\ pc = "extract_suggestions_from_feedback"
    /\ ret' = [suggestions |-> extract_suggestions_from_feedback(args.feedback)]
    /\ pc' = "returned"
    /\ UNCHANGED <<args, appstate, world>>

NextExtract == CallExtractSuggestions

SpecExtract == InitExtract /\ [][NextExtract]_vars

EnhancerErrors == {<<>>, <<[kind |-> "too_short", task |-> 1]>>}

InitEnhancer ==
    /\ pc = "enhancer_node"
    /\ args \in [reviewed : SeqsUpTo(ApplyTasks, MaxRunItems),
                 feedback : FeedbackTexts,
                 errors : EnhancerErrors,
                 phase : RunPhases]
    /\ ret = [enhanced_plan |-> <<>>, applied |-> FALSE, raised |-> "none",
              reviewed_plan |-> <<>>]
    /\ AppStateInit("request", "ideation")
    /\ WorldInit

CallEnhancerNode ==
    /\ pc = "enhancer_node"
    /\ ret' = enhancer_node(args.reviewed, args.feedback, args.errors, args.phase)
    /\ pc' = "returned"
    /\ UNCHANGED <<args, appstate, world>>

NextEnhancer == CallEnhancerNode

SpecEnhancer == InitEnhancer /\ [][NextEnhancer]_vars

-----------------------------------------------------------------------------
(* Claims about the enhancer.                                              *)

EnhancerReturned == pc = "returned" /\ "errors" \in DOMAIN args

\* C12: for every judge feedback text the suggestion path of the Enhancer
\* never raises; with no parseable array it applies nothing, and with an
\* array that is malformed as a suggestion list enhancer_node still returns
\* an enhanced_plan.
C12_EnhancerNeverRaises ==
    EnhancerReturned =>
        /\ ret.raised = "none"
        /\ extract_suggestions_from_feedback(args.feedback) = <<>>
              => ret.enhanced_plan = args.reviewed

Extracted == pc = "returned" /\ DOMAIN args = {"feedback"}

\* The parsed contents of the literal JSON arrays that a text contains.
ArraysIn(text) ==
    {json_loads(SubSeq(text, i, j)).val.d.items :
        <<i, j>> \in {ij \in (DOMAIN text) \X (DOMAIN text) :
                        /\ ij[1] < ij[2]
                        /\ text[ij[1]] = "["
                        /\ json_loads(SubSeq(text, ij[1], ij[2])).ok}}

\* C14: extract_suggestions_from_feedback applied to a text that contains a
\* literal JSON array, whatever surrounds it, other bracket characters
\* included, returns exactly the parsed contents of that array.
C14_ExtractReturnsTheArray ==
    (Extracted /\ ArraysIn(args.feedback) # {}) =>
        ret.suggestions \in ArraysIn(args.feedback)

\* C16: whenever validation_errors is non-empty, enhancer_node applies no
\* suggestion: the enhanced_plan it returns is the reviewed_plan, with the
\* same length and contents, whatever the judge feedback text contains.
C16_ErrorsShortCircuitEnhancement ==
    (EnhancerReturned /\ args.errors # <<>>) =>
        /\ ret.raised = "none"
        /\ ~ret.applied
        /\ ret.enhanced_plan = args.reviewed

\* A call with validation errors and a feedback text whose Remove
\* suggestion would have emptied the plan.
C16_Witness ==
    /\ EnhancerReturned
    /\ args.errors # <<>>
    /\ Len(args.reviewed) = 1
    /\ extract_suggestions_from_feedback(args.feedback) = <<Remove(1)>>
    /\ ret.enhanced_plan = args.reviewed

-----------------------------------------------------------------------------
(* Claims about the judge.                                                 *)

\* C13: for a plan containing an element that is not a well-formed record,
\* validate_plan_structure does not raise; it returns invalid, with a
\* 'not a valid object' error for that element, and still evaluates the
\* remaining rules for the other tasks.
C13_NonRecordIsReported ==
    (Validated /\ \E i \in DOMAIN args.plan : ~IsDict(args.plan[i])) =>
        /\ ret.raised = "none"
        /\ ~ret.valid
        /\ \A i \in DOMAIN args.plan :
              IF IsDict(args.plan[i])
              THEN \A k \in DOMAIN FieldErrors(args.plan[i], i) :
                      FieldErrors(args.plan[i], i)[k] \in Range(ret.errors)
              ELSE [kind |-> "not_a_dict", task |-> i] \in Range(ret.errors)

-----------------------------------------------------------------------------
(* judge_node called on its own, on every plan within the bounds and every *)
(* outcome of the completion engine's call.                                *)

JudgeReplyTexts == {Prose, ArrayText(<<"remove1">>)}

InitJudge ==
    /\ pc = "judge_node"
    /\ args \in [plan : SeqsUpTo(ValidateItems, MaxRunItems),
                 phase : RunPhases,
                 reply : Replies(JudgeReplyTexts)]
    /\ ret = StructuralFailure(<<>>, [errors |-> <<>>])
    /\ AppStateInit("request", "ideation")
    /\ WorldInit

CallJudgeNode ==
    /\ pc = "judge_node"
    /\ ret' = judge_node(args.plan, args.phase, args.reply)
    /\ pc' = "returned"
    /\ UNCHANGED <<args, appstate, world>>

NextJudge == CallJudgeNode

SpecJudge == InitJudge /\ [][NextJudge]_vars

JudgeReturned == pc = "returned" /\ DOMAIN args = {"plan", "phase", "reply"}

StructuralResult == validate_plan_structure(args.plan, args.phase)

StructurallyInvalid == StructuralResult.raised = "none" /\ ~StructuralResult.valid

\* C15: when the structural validation fails, judge_node returns
\* reviewed_plan equal to the input plan and validation_errors equal to the
\* non-empty structural error list, and makes no completion-engine call;
\* the Judge invokes the completion engine only after a structural pass.
C15_StructuralFailureReturnsAtOnce ==
    JudgeReturned =>
        /\ StructurallyInvalid =>
              /\ ret.raised = "none"
              /\ ret.reviewed_plan = args.plan
              /\ ret.validation_errors = StructuralResult.errors
              /\ ret.validation_errors # <<>>
              /\ ~ret.called_llm
        /\ ret.called_llm =>
              StructuralResult.raised = "none" /\ StructuralResult.valid

\* A plan of two tasks with two structural errors, judged while the
\* completion engine was ready to answer with a suggestion.
C15_Witness ==
    /\ JudgeReturned
    /\ StructurallyInvalid
    /\ Len(args.plan) = 2
    /\ Len(ret.validation_errors) = 2
    /\ args.reply.ok
    /\ args.reply.text = ArrayText(<<"remove1">>)
    /\ ~ret.called_llm

-----------------------------------------------------------------------------
(* executor_node called on its own, at every cursor of every plan within   *)
(* the bounds and on every outcome of the completion engine's call.        *)

ExecutorTasks ==
    {Task("product_manager", TxtVision), Task("research_agent", TxtSurvey),
     Task("brainstorm_agent", TxtVision), JDict([task |-> TxtShort])}

\* The results of the first n tasks of p, as the executor appends them.
ResultsOf(p, n) ==
    [i \in 1..n |-> [agent_type |-> Get(p[i], "agent_type", "product_manager"),
                     task |-> Get(p[i], "task", <<>>),
                     output |-> "output"]]

ExecutorArgs ==
    {[enhanced |-> e, reviewed |-> r, step |-> n,
      results |-> ResultsOf(PlanToExecute(e, r), n), phase |-> ph, reply |-> rp] :
        <<e, r, n, ph, rp>> \in
            {x \in SeqsUpTo(ExecutorTasks, MaxRunItems)
                       \X SeqsUpTo(ExecutorTasks, MaxRunItems)
                       \X (0..MaxRunItems) \X RunPhases \X Replies(TaskReplies) :
                x[3] <= Len(PlanToExecute(x[1], x[2]))}}

InitExecutor ==
    /\ pc = "executor_node"
    /\ args \in ExecutorArgs
    /\ ret = AllTasksCompleted(<<>>, 0)
    /\ AppStateInit("request", "ideation")
    /\ WorldInit

CallExecutorNode ==
    /\ pc = "executor_node"
    /\ ret' = executor_node(args.enhanced, args.reviewed, args.step,
                            args.results, args.phase, args.reply)
    /\ pc' = "returned"
    /\ UNCHANGED <<args, appstate, world>>

NextExecutor == CallExecutorNode

SpecExecutor == InitExecutor /\ [][NextExecutor]_vars

-----------------------------------------------------------------------------
(* Claims about one invocation of the executor.                            *)

ExecutorReturned == pc = "returned" /\ "step" \in DOMAIN args

GivenPlan == PlanToExecute(args.enhanced, args.reviewed)

\* C17: whenever executor_node is invoked with cursor >= plan length, it
\* returns done = true, invokes neither the completion engine nor any
\* memory write, and leaves the results sequence and the cursor unchanged.
C17_ExhaustedCursorOnlySetsDone ==
    (ExecutorReturned /\ args.step >= Len(GivenPlan)) =>
        /\ ret.raised = "none"
        /\ ret.done
        /\ ~ret.called_llm
        /\ ret.memory = <<>>
        /\ ret.results = args.results
        /\ ret.step = args.step

\* The scenario of C17: a plan of length 2 and cursor 2, with a completion
\* engine that would have answered.
C17_Witness ==
    /\ ExecutorReturned
    /\ Len(GivenPlan) = 2
    /\ args.step = 2
    /\ Len(args.results) = 2
    /\ args.reply.ok
    /\ ret.done
    /\ ~ret.called_llm

\* What the same invocation returns when the call succeeds.
OnSuccess ==
    executor_node(args.enhanced, args.reviewed, args.step, args.results,
                  args.phase, [ok |-> TRUE, text |-> <<"o", "u", "t", "p", "u", "t">>])

\* C18: when the completion-engine call for a task fails inside
\* executor_node, the failure is not propagated: a result entry whose
\* output is an error string is appended for that task and the cursor
\* advances by 1, exactly as for a successful call.
C18_FailedCallStillAdvances ==
    (ExecutorReturned /\ ~args.reply.ok /\ args.step < Len(GivenPlan)) =>
        /\ ret.raised = "none"
        /\ ret.called_llm
        /\ ret.results =
              Append(args.results,
                     [agent_type |-> Get(GivenPlan[args.step + 1], "agent_type",
                                         "product_manager"),
                      task |-> Get(GivenPlan[args.step + 1], "task", <<>>),
                      output |-> "Error executing task"])
        /\ ret.step = args.step + 1
        /\ ret.step = OnSuccess.step
        /\ ret.done = OnSuccess.done
        /\ Len(ret.results) = Len(OnSuccess.results)

\* A failed call for the second task of a plan of two.
C18_Witness ==
    /\ ExecutorReturned
    /\ ~args.reply.ok
    /\ Len(GivenPlan) = 2
    /\ args.step = 1
    /\ ret.step = 2
    /\ Len(ret.results) = 2
    /\ ret.results[2].output = "Error executing task"

-----------------------------------------------------------------------------
(* The runs of the workflow under the engine's scheduling: while the loop  *)
(* edge of the graph names the executor, the engine invokes it, and its    *)
(* completion-engine call returns or fails.                                *)

SpecLive == Spec /\ WF_vars(ExecutorNode(TaskReplies))

\* One result entry per task of the executed plan, in order.
ResultsFull ==
    /\ Len(results) = Len(ExecutedPlan)
    /\ \A i \in DOMAIN results :
          /\ results[i].agent_type =
                Get(ExecutedPlan[i], "agent_type", "product_manager")
          /\ results[i].task = Get(ExecutedPlan[i], "task", <<>>)

\* C19: assuming every completion-engine call eventually returns or fails,
\* every run that reaches the Executor eventually terminates with done =
\* true, and at termination the results sequence has exactly one entry per
\* task of the executed plan.
C19_RunsReachingExecutorTerminate ==
    (pc = "executor") ~> (pc = "end" /\ done /\ ResultsFull)

\* A terminated run of two tasks, the call for the first of which failed.
C19_Witness ==
    /\ pc = "end"
    /\ done
    /\ ResultsFull
    /\ Len(results) = 2
    /\ results[1].output = "Error executing task"
    /\ results[2].output = "output"

\* C20: tasks execute strictly in plan order: in every reachable state every
\* results entry carries the agent_type and task text of the task of the
\* executed plan at its position, and no Executor invocation changes or
\* removes an entry already there.
C20_ResultsFollowPlanOrder ==
    [][/\ Len(results') >= Len(results)
       /\ SubSeq(results', 1, Len(results)) = results
       /\ Len(results') <= Len(ExecutedPlan')
       /\ \A i \in DOMAIN results' :
             /\ results'[i].agent_type =
                   Get(ExecutedPlan'[i], "agent_type", "product_manager")
             /\ results'[i].task = Get(ExecutedPlan'[i], "task", <<>>)]_vars

\* A run in the middle of a plan of three different tasks, two of them
\* executed.
C20_Witness ==
    /\ pc = "executor"
    /\ Len(ExecutedPlan) = 3
    /\ Len(results) = 2
    /\ step = 2
    /\ results[1].task # results[2].task
    /\ results[2].task = ExecutedPlan[2].d["task"]
    /\ ExecutedPlan[3].d["task"] # ExecutedPlan[2].d["task"]

-----------------------------------------------------------------------------
(* Claims about the rules of validate_plan_structure.                      *)

\* C21: for every empty plan, validate_plan_structure returns invalid with
\* exactly one error and evaluates no other rule.
C21_EmptyPlanHasOneError ==
    (Validated /\ args.plan = <<>>) =>
        /\ ret.raised = "none"
        /\ ~ret.valid
        /\ ret.errors = <<[kind |-> "empty"]>>

\* The empty plan validated in a phase that allows no agent.
C21_Witness ==
    /\ Validated
    /\ args.plan = <<>>
    /\ get_allowed_agents(args.phase) = <<>>
    /\ Len(ret.errors) = 1

\* The positions of the tasks whose agent_type the phase does not allow.
DisallowedAt ==
    {i \in DOMAIN args.plan : ~Allowed(args.plan[i].d["agent_type"], args.phase)}

\* Every element is a task record with a description long enough, no two
\* tasks of one agent are similar, and exactly one agent_type is not
\* allowed in the phase.
OnlyDefectIsOneAgent ==
    /\ args.plan # <<>>
    /\ \A i \in DOMAIN args.plan : IsTaskRecord(args.plan[i])
    /\ StrippedLong
    /\ NoNearDuplicates
    /\ Cardinality(DisallowedAt) = 1

\* C22: for a plan whose only defect is that one task's agent_type is not
\* allowed in the phase, validate_plan_structure reports exactly one error,
\* and that error cites the disallowed agent.
C22_DisallowedAgentIsTheOneError ==
    (Validated /\ OnlyDefectIsOneAgent) =>
        /\ ret.raised = "none"
        /\ ~ret.valid
        /\ Len(ret.errors) = 1
        /\ ret.errors[1].kind = "not_allowed"
        /\ ret.errors[1].task \in DisallowedAt
        /\ ret.errors[1].agent = args.plan[ret.errors[1].task].d["agent_type"]
        /\ ret.errors[1].allowed = get_allowed_agents(args.phase)

\* The scenario of C22: a single ux_designer task with a description long
\* enough, in phase ideation.
C22_Witness ==
    /\ Validated
    /\ args.phase = "ideation"
    /\ args.plan = <<Task("ux_designer", TxtSurvey)>>
    /\ Len(ret.errors) = 1
    /\ ret.errors[1].agent = "ux_designer"

\* The number of 'very similar' errors that name the positions i and j.
SimilarErrors(i, j) ==
    Cardinality({k \in DOMAIN ret.errors :
                    /\ ret.errors[k].kind = "similar"
                    /\ ret.errors[k].first = i
                    /\ ret.errors[k].second = j})

EveryTaskHasAgent ==
    \A i \in DOMAIN args.plan :
        IsDict(args.plan[i]) /\ Has(args.plan[i], "agent_type")

\* C23 as stated: for every pair of tasks i < j of one agent_type there is
\* exactly one 'very similar' error naming i and j if and only if ten times
\* the number of shared words exceeds seven times the smaller word-set size,
\* and for a pair of different agent_type there is none.
C23_SimilarIffOverSevenTenths ==
    (Validated /\ EveryTaskHasAgent) =>
        \A i, j \in DOMAIN args.plan :
            i < j =>
                IF args.plan[i].d["agent_type"] = args.plan[j].d["agent_type"]
                THEN /\ SimilarErrors(i, j) \in {0, 1}
                     /\ SimilarErrors(i, j) = 1
                            <=> 10 * SharedWords(i, j) > 7 * SmallerWordSet(i, j)
                ELSE SimilarErrors(i, j) = 0

-----------------------------------------------------------------------------
(* Claims about the steps of apply_suggestions.                            *)

ModifiesOf == SuggestionsWith(args.suggestions, ActModify)

AddsOf == SuggestionsWith(args.suggestions, ActAdd)

RemovesOf == SortRemoves(SuggestionsWith(args.suggestions, ActRemove))

\* The plan and change log after the first k Modify suggestions, and after
\* every Modify, every Add and the first k Remove suggestions.
AfterModifies(k) ==
    ApplyModifies([NoChange EXCEPT !.plan = args.plan], SubSeq(ModifiesOf, 1, k))

AfterRemoves(k) ==
    ApplyRemoves(ApplyAdds(AfterModifies(Len(ModifiesOf)), AddsOf, args.phase),
                 SubSeq(RemovesOf, 1, k))

OutOfBounds(s, p) == Get(s, "step", 0) \notin 1..Len(p)

\* The suggestions other than a Modify whose step is outside the input plan
\* and a Remove whose step is below 1 or beyond any length the plan can have.
WithoutOutOfBounds ==
    SelectSeq(args.suggestions,
              LAMBDA s :
                  \/ ~IsDict(s)
                  \/ /\ ~(ActionOf(s) = ActModify /\ OutOfBounds(s, args.plan))
                     /\ ~(/\ ActionOf(s) = ActRemove
                          /\ \/ StepOf(s) < 1
                             \/ StepOf(s) > Len(args.plan) + Len(AddsOf)))

SameOutcome(r1, r2) ==
    r1.plan = r2.plan /\ r1.changes = r2.changes /\ r1.raised = r2.raised

\* C24: a Modify or Remove suggestion whose step is outside 1..len of the
\* plan at the time it is processed (0, negative and missing steps included)
\* leaves the plan and the change log as they were and raises nothing, and
\* the call returns what it returns on the list without such suggestions.
C24_OutOfBoundsIsSkipped ==
    (Applied /\ \A i \in DOMAIN args.suggestions : IsDict(args.suggestions[i])) =>
        /\ \A k \in 1..Len(ModifiesOf) :
              OutOfBounds(ModifiesOf[k], AfterModifies(k - 1).plan)
                  => AfterModifies(k) = AfterModifies(k - 1)
        /\ \A k \in 1..Len(RemovesOf) :
              OutOfBounds(RemovesOf[k], AfterRemoves(k - 1).plan)
                  => AfterRemoves(k) = AfterRemoves(k - 1)
        /\ SameOutcome(ret, AfterRemoves(Len(RemovesOf)))
        /\ SameOutcome(ret, apply_suggestions(args.plan, WithoutOutOfBounds,
                                              args.phase))

\* A plan of two tasks, a Modify beyond its end and a Remove of step 1: the
\* second task alone is returned, with one change-log entry.
C24_Witness ==
    /\ Applied
    /\ Len(args.plan) = 2 /\ args.plan[1] # args.plan[2]
    /\ args.suggestions = <<Modify(MaxPlanLen + 1, TxtRewritten), Remove(1)>>
    /\ ret.raised = "none"
    /\ ret.plan = <<args.plan[2]>>
    /\ Len(ret.changes) = 1

\* C25: a Modify suggestion whose step s is within the plan at the time it
\* is processed sets the task text of the entry at position s to new_task
\* and changes neither the length of the plan, nor that entry's agent_type,
\* nor any other entry.
C25_ModifyOverwritesOnlyTheTask ==
    (Applied /\ \A i \in DOMAIN args.suggestions : IsDict(args.suggestions[i])) =>
        /\ \A k \in 1..Len(ModifiesOf) :
              LET before == AfterModifies(k - 1).plan
                  after == AfterModifies(k).plan
                  s == Get(ModifiesOf[k], "step", 0)
              IN  ~OutOfBounds(ModifiesOf[k], before) =>
                      /\ AfterModifies(k).raised = "none"
                      /\ Len(after) = Len(before)
                      /\ after[s].d["task"] = Get(ModifiesOf[k], "new_task", <<>>)
                      /\ DOMAIN after[s].d = DOMAIN before[s].d
                      /\ after[s].d["agent_type"] = before[s].d["agent_type"]
                      /\ \A i \in DOMAIN before : i # s => after[i] = before[i]
        /\ (Len(ModifiesOf) = Len(args.suggestions)) =>
              SameOutcome(ret, AfterModifies(Len(ModifiesOf)))

\* A plan of two different tasks and one Modify of step 1: the first task
\* has the new text and its agent_type, the second task is as it was.
C25_Witness ==
    /\ Applied
    /\ Len(args.plan) = 2 /\ args.plan[1] # args.plan[2]
    /\ args.suggestions = <<Modify(1, TxtRewritten)>>
    /\ ret.plan = <<Task(args.plan[1].d["agent_type"], TxtRewritten), args.plan[2]>>
    /\ args.plan[1].d["task"] # TxtRewritten

-----------------------------------------------------------------------------
(* Claims about what the Enhancer writes.                                  *)

ExtractedSuggestions == extract_suggestions_from_feedback(args.feedback)

\* The Enhancer applied suggestions that are all Modify suggestions with a
\* step inside the reviewed plan and a text that differs from the task's.
ModifyOnlyEnhancement ==
    /\ ret.applied
    /\ ExtractedSuggestions # <<>>
    /\ \A i \in DOMAIN ExtractedSuggestions :
          LET s == ExtractedSuggestions[i]
          IN  /\ IsDict(s) /\ ActionOf(s) = ActModify
              /\ StepOf(s) \in DOMAIN args.reviewed
              /\ args.reviewed[StepOf(s)].d["task"] # Get(s, "new_task", <<>>)

\* C30 as stated: when enhancer_node returns, the reviewed plan of the state
\* it was given still holds the tasks it held before the call, and after a
\* Modify-only enhancement the enhanced plan differs from the reviewed plan.
C30_ReviewedPlanKeepsItsTasks ==
    (EnhancerReturned /\ ret.raised = "none") =>
        /\ ret.reviewed_plan = args.reviewed
        /\ ModifyOnlyEnhancement => ret.enhanced_plan # ret.reviewed_plan

-----------------------------------------------------------------------------
(* Claims about the Judge after a structural pass.                         *)

StructurallyValid == StructuralResult.raised = "none" /\ StructuralResult.valid

\* C26: when the structural validation passes and the completion engine
\* answers, judge_node returns reviewed_plan equal to the input plan, the
\* same tasks in the same order, and an empty validation_errors list,
\* whatever the text of the semantic feedback.
C26_StructuralPassKeepsThePlan ==
    (JudgeReturned /\ StructurallyValid /\ args.reply.ok) =>
        /\ ret.raised = "none"
        /\ ret.reviewed_plan = args.plan
        /\ ret.validation_errors = <<>>

\* A valid plan of two tasks reviewed with a feedback text that carries a
\* Remove suggestion.
C26_Witness ==
    /\ JudgeReturned /\ StructurallyValid
    /\ Len(args.plan) = 2
    /\ args.reply.ok /\ args.reply.text = ArrayText(<<"remove1">>)
    /\ ret.reviewed_plan = args.plan
    /\ ret.validation_errors = <<>>
    /\ ret.judge_feedback = Prose \o ArrayText(<<"remove1">>) \o Prose

-----------------------------------------------------------------------------
(* Claims about what the executor writes to Semantic Memory.               *)

\* The task the invocation executes and the role it is executed as.
ExecutedTask == GivenPlan[args.step + 1]

ExecutedAs == Get(ExecutedTask, "agent_type", "product_manager")

\* C27: an invocation that executes a task appends the task's output to
\* results whatever the role, and writes that output to Semantic Memory if
\* and only if the role is product_manager, research_agent, design_agent,
\* ux_designer or data_analyst.
C27_MemoryWriteOnlyForImportantRoles ==
    (ExecutorReturned /\ args.step < Len(GivenPlan) /\ IsDict(ExecutedTask)) =>
        /\ ret.raised = "none"
        /\ Len(ret.results) = Len(args.results) + 1
        /\ ret.results[Len(ret.results)].agent_type = ExecutedAs
        /\ ret.memory # <<>>
              <=> ExecutedAs \in {"product_manager", "research_agent",
                                  "design_agent", "ux_designer", "data_analyst"}
        /\ ret.memory # <<>> =>
              /\ Len(ret.memory) = 1
              /\ ret.memory[1].text = ret.results[Len(ret.results)].output
              /\ ret.memory[1].metadata.agent = ExecutedAs

\* A brainstorm_agent task executed after a product_manager task: its
\* output is the second result and nothing is written to Semantic Memory.
C27_Witness ==
    /\ ExecutorReturned
    /\ args.step = 1 /\ Len(GivenPlan) = 2
    /\ Get(GivenPlan[1], "agent_type", "") = "product_manager"
    /\ ExecutedAs = "brainstorm_agent"
    /\ Len(ret.results) = 2
    /\ ret.results[2].agent_type = "brainstorm_agent"
    /\ ret.memory = <<>>

-----------------------------------------------------------------------------
(* Claims about the runs of the workflow.                                  *)

\* C28: no step of a run changes the input or the phase of the session
\* state, so both hold their initial values in every reachable state.
C28_InputAndPhaseNeverChange == [][input' = input /\ phase' = phase]_vars

\* A run in the design phase that has gone through every node and ended.
C28_Witness ==
    /\ pc = "end"
    /\ input = "request" /\ phase = "design"
    /\ enhanced_plan # <<>>
    /\ results # <<>>

\* The place of a node in the order planner, judge, enhancer, executor.
Rank(node) ==
    CASE node = "planner" -> 1
      [] node = "judge" -> 2
      [] node = "enhancer" -> 3
      [] node = "executor" -> 4

\* The completion-engine calls, each recorded under the node that made it,
\* are in the order of the nodes, and only the executor calls repeatedly.
CallsInOrder ==
    \A i, j \in DOMAIN llm_calls :
        i < j => \/ Rank(llm_calls[i]) < Rank(llm_calls[j])
                 \/ llm_calls[i] = "executor" /\ llm_calls[j] = "executor"

\* One step of a run: the node that fires and the node that is next.
FiresInOrder ==
    /\ ~done
    /\ pc \in {"planner", "judge", "enhancer", "executor"}
    /\ pc = "planner" => pc' \in {"judge", "raised"}
    /\ pc = "judge" => pc' \in {"enhancer", "raised"}
    /\ pc = "enhancer" => pc' \in {"executor", "raised"}
    /\ pc = "executor" =>
          /\ pc' \in {"executor", "end", "raised"}
          /\ pc' = "end" <=> done'
    /\ pc # "executor" => done' = done

\* C29: a run starts at the planner; planner, judge and enhancer fire once
\* each, in this order, before the first executor invocation; the only
\* node that follows itself is the executor; and no node fires once done
\* is true.
C29_NodesFireInOrder ==
    /\ pc = "planner"
    /\ [][FiresInOrder]_vars
    /\ []CallsInOrder

\* A run of two tasks: one call by the planner, one by the judge, two by
\* the executor, and a third executor invocation that sets done.
C29_Witness ==
    /\ pc = "end" /\ done
    /\ llm_calls = <<"planner", "judge", "executor", "executor">>
    /\ Len(results) = 2

-----------------------------------------------------------------------------
(* Claims about the tasks a call of apply_suggestions appends.             *)

\* The tasks the Add suggestions of the call append, in order.
AppendedTasks ==
    LET added == ApplyAdds(AfterModifies(Len(ModifiesOf)), AddsOf, args.phase).plan
    IN  SubSeq(added, Len(args.plan) + 1, Len(added))

\* C31 as stated: a task appended by an Add suggestion is neither modified
\* nor removed by the Modify and Remove suggestions of the same call, so
\* the returned plan ends with the appended tasks.
C31_AppendedTasksAreKept ==
    (/\ Applied
     /\ \A i \in DOMAIN args.suggestions : IsDict(args.suggestions[i])
     /\ ret.raised = "none") =>
        /\ Len(ret.plan) >= Len(AppendedTasks)
        /\ SubSeq(ret.plan, Len(ret.plan) - Len(AppendedTasks) + 1, Len(ret.plan))
              = AppendedTasks

-----------------------------------------------------------------------------
(* The runs of the workflow in each of the six phases of config.py.        *)

DefinedPhases == DOMAIN PHASE_ALLOWED_AGENTS

PhasePlanLiterals == {"pm", "ra", "ux", "da", "qa", "no_agent"}

PhasePlannerTexts ==
    {ArrayText(items) : items \in SeqsUpTo(PhasePlanLiterals, MaxRunItems)}
        \cup {Prose}

PhaseSuggestionLiterals == {"add_ux", "add_da", "modify1", "remove1"}

PhaseFeedbackTexts ==
    {ArrayText(items) :
        items \in SeqsUpTo(PhaseSuggestionLiterals, MaxRunSuggestions)}
        \cup {Prose}

InitPhases ==
    /\ pc = "planner"
    /\ \E ph \in DefinedPhases : AppStateInit("request", ph)
    /\ WorldInit
    /\ args = NoCall
    /\ ret = NoChange

NextPhases ==
    \/ PlannerNode(PhasePlannerTexts)
    \/ JudgeNode(PhaseFeedbackTexts)
    \/ EnhancerNode
    \/ ExecutorNode(TaskReplies)

SpecPhases == InitPhases /\ [][NextPhases]_vars

\* C32: in each of the six defined phases, whatever the planner's output
\* and the judge's suggestions, every entry of results has an agent_type
\* that the phase allows; a task with no agent_type is executed as
\* product_manager.
C32_ExecutedAgentsAreAllowed ==
    \A i \in DOMAIN results : Allowed(results[i].agent_type, phase)

\* A run of the testing phase that ends after a task with no agent_type,
\* executed as product_manager, and a qa_engineer task.
C32_Witness ==
    /\ pc = "end" /\ phase = "testing"
    /\ plan = <<Literal.no_agent, Literal.qa>>
    /\ Len(results) = 2
    /\ results[1].agent_type = "product_manager"
    /\ results[2].agent_type = "qa_engineer"

-----------------------------------------------------------------------------
(* Claims about the cursor and the plans during the executor loop.         *)

ExecutedNow == PlanToExecute(enhanced_plan, reviewed_plan)

\* C33: in every reachable state of a run the number of results equals the
\* cursor and the cursor is at most the length of the executed plan, and
\* every executor invocation that returns without setting done increases
\* the cursor and the number of results by exactly 1.
C33_ResultsFollowTheCursor ==
    /\ [](Len(results) = step /\ step <= Len(ExecutedNow))
    /\ [][(pc = "executor" /\ pc' # "raised" /\ ~done') =>
              /\ step' = step + 1
              /\ Len(results') = Len(results) + 1]_vars

\* The loop between the two tasks of a plan: one result, cursor 1.
C33_Witness ==
    /\ pc = "executor" /\ ~done
    /\ Len(ExecutedNow) = 2
    /\ step = 1
    /\ Len(results) = 1

-----------------------------------------------------------------------------
(* Claims about the length of the plan apply_suggestions returns.          *)

\* The Modify and Remove suggestions found in bounds when applied, by
\* their place in the order of application, and the Add suggestions whose
\* agent_type, product_manager when absent, the phase allows.
AppliedModifies ==
    {k \in 1..Len(ModifiesOf) :
        ~OutOfBounds(ModifiesOf[k], AfterModifies(k - 1).plan)}

AppliedRemoves ==
    {k \in 1..Len(RemovesOf) :
        ~OutOfBounds(RemovesOf[k], AfterRemoves(k - 1).plan)}

AllowedAddsOf ==
    {k \in 1..Len(AddsOf) :
        Allowed(Get(AddsOf[k], "agent_type", "product_manager"), args.phase)}

OtherActions ==
    {i \in DOMAIN args.suggestions :
        ActionOf(args.suggestions[i]) \notin {ActAdd, ActModify, ActRemove}}

\* C34: the returned plan has the length of the input plan, plus the number
\* of Add suggestions with an allowed agent_type, minus the number of
\* Remove suggestions found in bounds when applied; the change log has one
\* entry per applied Modify, allowed Add and applied Remove; a suggestion
\* with any other action changes neither.
C34_LengthAndChangeLog ==
    (Applied /\ \A i \in DOMAIN args.suggestions : IsDict(args.suggestions[i])) =>
        /\ ret.raised = "none"
        /\ Len(ret.plan) = Len(args.plan) + Cardinality(AllowedAddsOf)
                               - Cardinality(AppliedRemoves)
        /\ Len(ret.changes) = Cardinality(AppliedModifies)
                                  + Cardinality(AllowedAddsOf)
                                  + Cardinality(AppliedRemoves)
        /\ Cardinality({k \in DOMAIN ret.changes : ret.changes[k].kind = "modified"})
              = Cardinality(AppliedModifies)
        /\ Cardinality({k \in DOMAIN ret.changes : ret.changes[k].kind = "added"})
              = Cardinality(AllowedAddsOf)
        /\ Cardinality({k \in DOMAIN ret.changes : ret.changes[k].kind = "removed"})
              = Cardinality(AppliedRemoves)
        /\ Len(ModifiesOf) + Len(AddsOf) + Len(RemovesOf) + Cardinality(OtherActions)
              = Len(args.suggestions)

\* A plan of two tasks, an allowed Add and a suggestion with another
\* action: three tasks are returned and the change log has one entry.
C34_Witness ==
    /\ Applied
    /\ Len(args.plan) = 2 /\ args.phase = "ideation"
    /\ args.suggestions = <<Add("product_manager", TxtSurvey),
                            JDict([action |-> ActMerge, step |-> 1])>>
    /\ Len(ret.plan) = 3
    /\ Len(ret.changes) = 1

-----------------------------------------------------------------------------
(* Claims about what the executor leaves alone.                            *)

\* C35: no executor invocation changes plan, reviewed_plan or
\* enhanced_plan, so the length the cursor is compared with is the same
\* throughout the loop.
C35_ExecutorLeavesThePlans ==
    [][pc = "executor" =>
          /\ plan' = plan
          /\ reviewed_plan' = reviewed_plan
          /\ enhanced_plan' = enhanced_plan
          /\ Len(PlanToExecute(enhanced_plan', reviewed_plan')) = Len(ExecutedNow)]_vars

\* The end of a run whose enhanced plan of two tasks differs from the
\* reviewed plan: both tasks were executed and the three plans are there.
C35_Witness ==
    /\ pc = "end"
    /\ plan # <<>> /\ reviewed_plan = plan
    /\ Len(enhanced_plan) = 2 /\ enhanced_plan # reviewed_plan
    /\ Len(results) = 2
    /\ \A i \in 1..2 :
          /\ results[i].agent_type = enhanced_plan[i].d["agent_type"]
          /\ results[i].task = enhanced_plan[i].d["task"]

====
